---- MODULE Spec2Model ----
(***************************************************************************)
(* A model of src/slomux.js: the store made by createStore (its state, its *)
(* listener array, the unsubscribe closures) and the notification pass of  *)
(* dispatch, including listeners that call back into the store while the   *)
(* pass is running.                                                        *)
(*                                                                         *)
(* Array indices are JavaScript's (0-based) wherever the code computes     *)
(* with them (indexOf, splice, the forEach counter); a TLA+ sequence holds *)
(* the element of index i at position i + 1.                               *)
(***************************************************************************)
EXTENDS Integers, Sequences, FiniteSets

\* ------------------------------------------------------------------ bounds
\* The number of calls of store methods in a run: subscribe, dispatch and
\* the unsubscribe handles together, whether the outside world or a running
\* listener makes the call.
MaxCalls == 5

\* ------------------------------------------------------------------ values
\* The callbacks handed to subscribe. The same callback may be registered
\* several times.
Callbacks == {"f", "g"}

Payloads == {"x", "y"}

\* A state value: a todo array, or JavaScript's undefined.
Arr(items) == [tag |-> "array", items |-> items]

Undefined == [tag |-> "undefined", items |-> <<>>]

\* What createStore is given as initialState: [].
InitialState == Arr(<<>>)

\* addTodo(todo): an action { type: ADD_TODO, payload: todo }.
addTodo(todo) == [def |-> TRUE, type |-> "ADD_TODO", payload |-> todo]

\* An action whose type the reducer does not know.
OtherAction == [def |-> TRUE, type |-> "OTHER", payload |-> "x"]

\* dispatch() called with undefined: reading action.type throws a TypeError.
NoAction == [def |-> FALSE, type |-> "", payload |-> "x"]

Actions == {addTodo(p) : p \in Payloads} \cup {OtherAction, NoAction}

\* The transition functions createStore is given: the repository's reducer,
\* and a malformed one that returns undefined for every input.
Reducers == {"todo", "undef"}

\* ----------------------------------------------------------- the reducer
\* reducer(state = [], action): the default parameter replaces an undefined
\* state by [].
TodoReducer(state, action) ==
  LET s == IF state.tag = "undefined" THEN Arr(<<>>) ELSE state
  IN  IF action.type = "ADD_TODO"
        THEN Arr(Append(s.items, action.payload))
        ELSE s

\* The call reducer(currentState, action) throws: `switch (action.type)` on
\* an undefined action. The malformed reducer reads nothing and never throws.
ReducerThrows(r, state, action) == r = "todo" /\ ~action.def

\* The value reducer(currentState, action) returns when it does not throw.
Reducer(r, state, action) ==
  IF r = "todo" THEN TodoReducer(state, action) ELSE Undefined

\* ------------------------------------------------------------ array helpers
\* Array.prototype.indexOf: the first index holding x, or -1.
IndexOf(seq, x) ==
  IF \E i \in 1..Len(seq) : seq[i] = x
    THEN (CHOOSE i \in 1..Len(seq) :
            seq[i] = x /\ \A j \in 1..(i - 1) : seq[j] # x) - 1
    ELSE -1

\* Array.prototype.splice(start, 1): a negative start counts from the end,
\* a start past the end removes nothing.
Splice1(seq, start) ==
  LET from == IF start < 0
                THEN (IF Len(seq) + start < 0 THEN 0 ELSE Len(seq) + start)
                ELSE start
  IN  IF from >= Len(seq)
        THEN seq
        ELSE [i \in 1..(Len(seq) - 1) |->
                IF i <= from THEN seq[i] ELSE seq[i + 1]]

Count(seq, x) == Cardinality({i \in 1..Len(seq) : seq[i] = x})

\* ------------------------------------------------------------------- state
VARIABLES
  reducer,       \* createStore's reducer argument
  currentState,  \* let currentState
  listeners,     \* const listeners = []
  handles,       \* the closures returned by subscribe, in creation order:
                 \* [listener, isSubscribed]
  stack,         \* the dispatch calls in progress, outermost first: each is
                 \* one listeners.forEach with its position
  error,         \* the exception that left the outermost call, or "none"
  dispatched,    \* history: every action handed to dispatch, in call order
  fresh,         \* history: the latest call of a store method was the
                 \* subscribe that made the newest handle
  recalls,       \* history: how many times a handle was invoked that had
                 \* been invoked before
  stateRef,      \* the identity of the object currentState refers to: 1 is
                 \* the array createStore was given, dispatch number n
                 \* allocates n + 1, and 0 stands for undefined
  components,    \* the instances of the class connect returns: for each its
                 \* place in React's lifecycle, the props its last render
                 \* derived from the state, and this.unsubscribe (the
                 \* number of the handle, 0 before componentDidMount)
  second         \* a store made by another call of createStore with the
                 \* same arguments: its currentState, its listeners, its
                 \* handles, and as history the callbacks its latest
                 \* dispatch invoked and the number of its dispatches

vars == <<reducer, currentState, listeners, handles, stack, error,
          dispatched, fresh, recalls, stateRef, components, second>>

\* The instances of the connected class that are rendered below a Provider,
\* and those rendered with no Provider above them. The listener an instance
\* subscribes, its own handleChange, is written as the instance.
Instances == {"c1", "c2", "c3"}
Orphans == {"o1"}
Components == Instances \cup Orphans

\* this.context.store: what the Provider above the instance, if there is
\* one, returns from getChildContext.
ContextStore(c) == IF c \in Instances THEN "store" ELSE "undefined"

\* ToDo's mapStateToProps, without the title it copies from its own props.
mapStateToProps(state) == [todos |-> state]

\* The registrations whose handle has not been invoked, in the order in
\* which subscribe made them.
Live == SelectSeq([h \in 1..Len(handles) |-> h],
                  LAMBDA h : handles[h].isSubscribed)

\* Their callbacks, in that order.
LiveCallbacks == [i \in 1..Len(Live) |-> handles[Live[i]].listener]

\* const getState = () => currentState
getState == currentState

\* ------------------------------------------------------- notification pass
\* One listeners.forEach(listener => listener()) in progress.
\*   k, len   forEach's counter and the length it read when it started
\*   inCall   the callback of index k is running
\*   snap     history: the array when the pass started
\*   called   history: the callbacks this pass has invoked, in order
\*   serving  history: the registration on whose behalf the callback of
\*            index k was called: the one that stands at index k among the
\*            live registrations in subscription order; 0 when the array
\*            does not hold the live registrations' callbacks in that order
\*   ops      history: what subscribe/unsubscribe calls listeners made while
\*            the pass was running: "none", "selfUnsub" (only listeners of
\*            this pass invoking the handle of the registration they are
\*            serving) or "other"
\*   nested   history: a listener called dispatch while the pass was running
NewPass ==
  [k |-> 0, len |-> Len(listeners), inCall |-> FALSE, snap |-> listeners,
   called |-> <<>>, serving |-> 0, ops |-> "none", nested |-> FALSE]

Top == stack[Len(stack)]

\* A store method can be called by the outside world when no dispatch is
\* running, or by the listener that is running.
Caller == IF stack = <<>> THEN TRUE ELSE Top.inCall

\* The handles that have been invoked.
Dead == {h \in 1..Len(handles) : ~handles[h].isSubscribed}

\* The calls of store methods made so far.
Calls == Len(handles) + Len(dispatched) + Cardinality(Dead) + recalls

CanCall == Caller /\ Calls < MaxCalls

PassDone(fr) == ~fr.inCall /\ fr.k >= fr.len

\* The stack after a listener called subscribe or an unsubscribe handle;
\* own: the call is the running callback unsubscribing itself.
NoteOp(own) ==
  [i \in 1..Len(stack) |->
     [stack[i] EXCEPT !.ops =
        IF i = Len(stack) /\ own /\ @ \in {"none", "selfUnsub"}
          THEN "selfUnsub" ELSE "other"]]

\* ----------------------------------------------------------------- actions
Init ==
  /\ reducer \in Reducers
  /\ currentState = InitialState
  /\ listeners = <<>>
  /\ handles = <<>>
  /\ stack = <<>>
  /\ error = "none"
  /\ dispatched = <<>>
  /\ fresh = FALSE
  /\ recalls = 0
  /\ stateRef = 1
  /\ components = [c \in Components |->
                     [phase |-> "new", props |-> mapStateToProps(Undefined),
                      unsubscribe |-> 0]]
  /\ second = [currentState |-> InitialState, listeners |-> <<>>,
               handles |-> <<>>, called |-> <<>>, dispatches |-> 0]

\* Mutant of Subscribe: subscribe calls the new listener at once.
SubscribeCallsListener(f) ==
  /\ CanCall
  /\ listeners' = Append(listeners, f)
  /\ handles' = Append(handles,
                       [listener |-> f, isSubscribed |-> TRUE])
  /\ stack' = Append(NoteOp(FALSE),
                     [NewPass EXCEPT !.k = Len(listeners),
                                     !.len = Len(listeners) + 1,
                                     !.snap = <<f>>])
  /\ error' = "none"
  /\ fresh' = TRUE
  /\ UNCHANGED <<reducer, currentState, dispatched, recalls>>

\* subscribe(listener)
Subscribe(f) ==
  /\ CanCall
  /\ listeners' = Append(listeners, f)
  /\ handles' = Append(handles,
                       [listener |-> f, isSubscribed |-> TRUE])
  /\ stack' = NoteOp(FALSE)
  /\ error' = "none"
  /\ fresh' = TRUE
  /\ UNCHANGED <<reducer, currentState, dispatched, recalls>>

\* Mutant of AlreadyUnsubscribed: the closure has no isSubscribed guard.
NeverUnsubscribed(h) == FALSE

\* if (!isSubscribed) return;
AlreadyUnsubscribed(h) == ~handles[h].isSubscribed

\* Mutant of Removed: the closure clears its flag and splices nothing.
RemovedNothing(h) == listeners

\* The array after `index = listeners.indexOf(listener)` and
\* `listeners.splice(index, 1)` in the closure of handle h.
Removed(h) == Splice1(listeners, IndexOf(listeners, handles[h].listener))

\* unsubscribe(), the closure that subscribe call number h returned
Unsubscribe(h) ==
  /\ CanCall
  /\ h \in 1..Len(handles)
  /\ IF AlreadyUnsubscribed(h)
       THEN UNCHANGED <<listeners, handles>>
       ELSE /\ handles' = [handles EXCEPT ![h].isSubscribed = FALSE]
            /\ listeners' = Removed(h)
  /\ recalls' = IF handles[h].isSubscribed THEN recalls ELSE recalls + 1
  /\ stack' = NoteOp(/\ stack # <<>>
                     /\ handles[h].isSubscribed
                     /\ h = Top.serving)
  /\ error' = "none"
  /\ fresh' = FALSE
  /\ UNCHANGED <<reducer, currentState, dispatched>>

\* Mutant of NextState: dispatch notifies the listeners of the state it had.
NextStateNotAssigned(a) == currentState

\* Mutant of NextState: the reducer is given the initial state.
NextStateFromInitial(a) == Reducer(reducer, InitialState, a)

\* reducer(currentState, action), when it returns
NextState(a) == Reducer(reducer, currentState, a)

\* Mutant of Allocates: ADD_TODO pushes onto the array it was given.
AllocatesNothing(a) == FALSE

\* reducer(currentState, action) returns an array it has built: the spread
\* `[...state, action.payload]`, or the default `state = []`. Otherwise it
\* returns the reference it was given.
Allocates(a) ==
  reducer = "todo" /\ (a.type = "ADD_TODO" \/ currentState.tag = "undefined")

\* The identity of the value reducer(currentState, action) returns.
NextRef(a) ==
  IF reducer # "todo" THEN 0
  ELSE IF Allocates(a) THEN Len(dispatched) + 2
  ELSE stateRef

\* Mutant of Thrown: dispatch catches the exception and notifies.
ThrownSwallowed ==
  /\ error' = "none"
  /\ stack' = Append([i \in 1..Len(stack) |->
                        [stack[i] EXCEPT !.nested = TRUE]],
                     NewPass)
  /\ UNCHANGED <<currentState, stateRef>>

\* reducer(currentState, action) throws: nothing is assigned, no listener is
\* called and the exception leaves dispatch. The model's listeners catch
\* nothing, so it leaves every dispatch in progress.
Thrown ==
  /\ error' = "TypeError"
  /\ stack' = <<>>
  /\ UNCHANGED <<currentState, stateRef>>

\* dispatch(action), up to the start of listeners.forEach
Dispatch(a) ==
  /\ CanCall
  /\ dispatched' = Append(dispatched, a)
  /\ fresh' = FALSE
  /\ IF ReducerThrows(reducer, currentState, a)
       THEN Thrown
       ELSE /\ currentState' = NextState(a)
            /\ stateRef' = NextRef(a)
            /\ stack' = Append([i \in 1..Len(stack) |->
                                  [stack[i] EXCEPT !.nested = TRUE]],
                               NewPass)
            /\ error' = "none"
  /\ UNCHANGED <<reducer, listeners, handles, recalls>>

\* The element forEach reads at index k.
Current == listeners[Top.k + 1]

\* forEach calls the callback of index k.
CallListener ==
  /\ stack # <<>>
  /\ ~Top.inCall
  /\ Top.k < Top.len
  /\ Top.k < Len(listeners)
  /\ stack' = [stack EXCEPT ![Len(stack)].inCall = TRUE,
                            ![Len(stack)].called = Append(@, Current),
                            ![Len(stack)].serving =
                               IF listeners = LiveCallbacks
                                 THEN Live[Top.k + 1] ELSE 0]
  /\ UNCHANGED <<reducer, currentState, listeners, handles, error,
                 dispatched, fresh, recalls>>

\* forEach skips index k: the array no longer has it.
SkipIndex ==
  /\ stack # <<>>
  /\ ~Top.inCall
  /\ Top.k < Top.len
  /\ Top.k >= Len(listeners)
  /\ stack' = [stack EXCEPT ![Len(stack)].k = @ + 1]
  /\ UNCHANGED <<reducer, currentState, listeners, handles, error,
                 dispatched, fresh, recalls>>

\* The running callback returns; forEach goes on to the next index.
ListenerReturn ==
  /\ stack # <<>>
  /\ Top.inCall
  /\ stack' = [stack EXCEPT ![Len(stack)].inCall = FALSE,
                            ![Len(stack)].k = @ + 1]
  /\ UNCHANGED <<reducer, currentState, listeners, handles, error,
                 dispatched, fresh, recalls>>

\* forEach is past the length it started with: dispatch returns.
DispatchReturn ==
  /\ stack # <<>>
  /\ PassDone(Top)
  /\ stack' = SubSeq(stack, 1, Len(stack) - 1)
  /\ UNCHANGED <<reducer, currentState, listeners, handles, error,
                 dispatched, fresh, recalls>>

\* What the store's methods other than dispatch, and the steps of a pass,
\* leave alone.
untouched == <<stateRef, components, second>>

Next ==
  \/ \E f \in Callbacks : Subscribe(f) /\ UNCHANGED untouched
  \/ \E h \in 1..Len(handles) : Unsubscribe(h) /\ UNCHANGED untouched
  \/ \E a \in Actions : Dispatch(a) /\ UNCHANGED <<components, second>>
  \/ CallListener /\ UNCHANGED untouched
  \/ SkipIndex /\ UNCHANGED untouched
  \/ ListenerReturn /\ UNCHANGED untouched
  \/ DispatchReturn /\ UNCHANGED untouched

Spec == Init /\ [][Next]_vars

\* ------------------------------------------------------------------ connect
\* React mounts instance c: it calls render(), which reads
\* this.context.store.getState(), and then componentDidMount(), which sets
\* this.unsubscribe = this.context.store.subscribe(this.handleChange).
\* With no Provider above, this.context.store is undefined and the property
\* access in render() throws a TypeError, which leaves whatever is running.
Mount(c) ==
  /\ components[c].phase = "new"
  /\ IF ContextStore(c) = "undefined"
       THEN /\ Caller
            /\ components' = [components EXCEPT ![c].phase = "failed"]
            /\ error' = "TypeError"
            /\ stack' = <<>>
            /\ UNCHANGED <<reducer, currentState, listeners, handles,
                           dispatched, fresh, recalls>>
       ELSE /\ Subscribe(c)
            /\ components' =
                 [components EXCEPT ![c].phase = "mounted",
                                    ![c].props = mapStateToProps(getState),
                                    ![c].unsubscribe = Len(handles) + 1]
  /\ UNCHANGED <<stateRef, second>>

\* Mutant of componentWillUnmount: the instance leaves its listener behind.
componentWillUnmountLeaks(c) ==
  /\ Caller
  /\ components[c].phase = "mounted"
  /\ components' = [components EXCEPT ![c].phase = "unmounted"]
  /\ UNCHANGED <<reducer, currentState, listeners, handles, stack, error,
                 dispatched, fresh, recalls, stateRef, second>>

\* React unmounts instance c: this.unsubscribe()
componentWillUnmount(c) ==
  /\ components[c].phase = "mounted"
  /\ Unsubscribe(components[c].unsubscribe)
  /\ components' = [components EXCEPT ![c].phase = "unmounted"]
  /\ UNCHANGED <<stateRef, second>>

\* handleChange of instance c: this.forceUpdate(), which renders the instance
\* again if it is mounted.
handleChange(c) ==
  IF components[c].phase = "mounted"
    THEN [components EXCEPT ![c].props = mapStateToProps(getState)]
    ELSE components

\* forEach calls the callback of index k, which may be an instance's
\* handleChange.
InvokeListener ==
  /\ CallListener
  /\ components' = IF Current \in Instances
                     THEN handleChange(Current) ELSE components
  /\ UNCHANGED <<stateRef, second>>

\* The store of an application whose listeners are its connected
\* components: React mounts and unmounts instances, from outside or while a
\* listener (a re-render) is running, and anyone dispatches.
ConnectNext ==
  \/ \E c \in Components : Mount(c)
  \/ \E c \in Instances : componentWillUnmount(c)
  \/ \E a \in Actions : Dispatch(a) /\ UNCHANGED <<components, second>>
  \/ InvokeListener
  \/ SkipIndex /\ UNCHANGED untouched
  \/ ListenerReturn /\ UNCHANGED untouched
  \/ DispatchReturn /\ UNCHANGED untouched

ConnectSpec == Init /\ [][ConnectNext]_vars

\* --------------------------------------------------------------- two stores
\* The calls made so far of the second store's methods.
SecondCalls ==
  Len(second.handles) + second.dispatches
    + Cardinality({h \in 1..Len(second.handles) :
                     ~second.handles[h].isSubscribed})

\* Either store's method can be called, by the outside world or by a running
\* listener of the first store. The second store's listeners call nothing.
CanCallEither == Caller /\ Calls + SecondCalls < MaxCalls

\* What a call of the second store's methods leaves alone: the closure
\* variables of the first store, and everything else.
firstStore == <<reducer, currentState, listeners, handles, stack, error,
                dispatched, fresh, recalls, stateRef, components>>

\* Mutant of SubscribeSecond: listeners is one array shared by all stores.
SubscribeShared(f) ==
  /\ CanCallEither
  /\ listeners' = Append(listeners, f)
  /\ second' = [second EXCEPT
                  !.handles = Append(@, [listener |-> f,
                                         isSubscribed |-> TRUE])]
  /\ UNCHANGED <<reducer, currentState, handles, stack, error,
                 dispatched, fresh, recalls, stateRef, components>>

\* subscribe(listener) of the second store
SubscribeSecond(f) ==
  /\ CanCallEither
  /\ second' = [second EXCEPT
                  !.listeners = Append(@, f),
                  !.handles = Append(@, [listener |-> f,
                                         isSubscribed |-> TRUE])]
  /\ UNCHANGED firstStore

\* The first call of handle h of the second store: it clears its flag and
\* splices the second store's array. (A later call returns at once.)
UnsubscribeSecond(h) ==
  /\ CanCallEither
  /\ second.handles[h].isSubscribed
  /\ second' = [second EXCEPT
                  !.handles[h].isSubscribed = FALSE,
                  !.listeners =
                     Splice1(@, IndexOf(@, second.handles[h].listener))]
  /\ UNCHANGED firstStore

\* dispatch(action) of the second store: its listeners return without
\* calling anything, so forEach calls each element of its array in order.
\* If the reducer throws, nothing is assigned and no listener is called.
DispatchSecond(a) ==
  /\ CanCallEither
  /\ second' =
       IF ReducerThrows(reducer, second.currentState, a)
         THEN [second EXCEPT !.dispatches = @ + 1, !.called = <<>>]
         ELSE [second EXCEPT
                 !.currentState = Reducer(reducer, @, a),
                 !.called = second.listeners,
                 !.dispatches = @ + 1]
  /\ UNCHANGED firstStore

\* Two stores side by side.
TwoNext ==
  \/ \E f \in Callbacks :
       CanCallEither /\ Subscribe(f) /\ UNCHANGED untouched
  \/ \E h \in 1..Len(handles) :
       CanCallEither /\ Unsubscribe(h) /\ UNCHANGED untouched
  \/ \E a \in Actions :
       CanCallEither /\ Dispatch(a) /\ UNCHANGED <<components, second>>
  \/ CallListener /\ UNCHANGED untouched
  \/ SkipIndex /\ UNCHANGED untouched
  \/ ListenerReturn /\ UNCHANGED untouched
  \/ DispatchReturn /\ UNCHANGED untouched
  \/ \E f \in Callbacks : SubscribeSecond(f)
  \/ \E h \in 1..Len(second.handles) : UnsubscribeSecond(h)
  \/ \E a \in Actions : DispatchSecond(a)

TwoSpec == Init /\ [][TwoNext]_vars

\* ------------------------------------------------------ claims: vocabulary
\* transitionFn folded left to right over `actions`, starting from `state`;
\* a call that throws leaves the state as it was.
RECURSIVE Fold(_, _, _)
Fold(r, state, actions) ==
  IF actions = <<>>
    THEN state
    ELSE Fold(r,
              IF ReducerThrows(r, state, Head(actions))
                THEN state ELSE Reducer(r, state, Head(actions)),
              Tail(actions))

\* How many registrations of callback f have a handle not yet invoked.
LiveCount(f) == Count(LiveCallbacks, f)

\* No listener has called subscribe, an unsubscribe handle or dispatch
\* while the pass was running.
Quiet(fr) == fr.ops = "none" /\ ~fr.nested

\* This step is forEach calling a callback.
CallStep ==
  /\ stack # <<>>
  /\ Len(stack') = Len(stack)
  /\ ~Top.inCall
  /\ stack'[Len(stack)].inCall

\* This step is a call of dispatch.
DispatchStep == Len(dispatched') = Len(dispatched) + 1

\* The action that call was given.
Given == dispatched'[Len(dispatched')]

\* ------------------------------------------------------------------ claims
\* C1: after every dispatch, getState() is the left fold of the reducer over
\* the initial state and the actions dispatched so far.
C1_StateIsFold == getState = Fold(reducer, InitialState, dispatched)

\* C1's case: the todo reducer after ADD_TODO x and ADD_TODO y.
C1_Witness ==
  /\ reducer = "todo"
  /\ dispatched = <<addTodo("x"), addTodo("y")>>
  /\ getState = Arr(<<"x", "y">>)
  /\ stack = <<>>

\* C2: a dispatch whose listeners call no store method has, when it
\* returns, invoked every live registration exactly once, in the order in
\* which subscribe made the registrations.
C2_EachOnceInSubscriptionOrder ==
  \A i \in 1..Len(stack) :
    Quiet(stack[i]) /\ PassDone(stack[i]) => stack[i].called = LiveCallbacks

\* C3: a pass in which the only store calls are listeners invoking their own
\* handle still invokes every listener that was registered when it started.
C3_SelfUnsubscribeSkipsNobody ==
  \A i \in 1..Len(stack) :
    (/\ stack[i].ops = "selfUnsub"
     /\ ~stack[i].nested
     /\ PassDone(stack[i])) => stack[i].called = stack[i].snap

\* C4: a callback is invoked only on behalf of a registration whose handle
\* has not been invoked: whenever forEach calls a callback, that callback
\* has a live registration, and in a pass whose listeners call no store
\* method it has more live registrations than the pass has already served;
\* such a pass ends having called each callback once per live registration.
C4_UnsubscribedNeverInvoked ==
  /\ [](\A i \in 1..Len(stack) :
          Quiet(stack[i]) /\ PassDone(stack[i]) =>
            \A f \in Callbacks : Count(stack[i].called, f) = LiveCount(f))
  /\ [][CallStep =>
          LiveCount(Current) >
            (IF Quiet(Top) THEN Count(Top.called, Current) ELSE 0)]_vars

\* C4's case: a callback registered twice, one handle invoked, and a pass
\* that has then called it once.
C4_Witness ==
  /\ stack # <<>>
  /\ \E f \in Callbacks :
       /\ \E h \in Dead : handles[h].listener = f
       /\ LiveCount(f) = 1
       /\ Quiet(Top) /\ PassDone(Top)
       /\ Count(Top.called, f) = 1

\* C5: invoking a handle that has been invoked before changes neither the
\* listener array nor the state nor any handle, and throws nothing.
C5_SecondUnsubscribeIsNoOp ==
  [][recalls' = recalls + 1 =>
       /\ listeners' = listeners
       /\ handles' = handles
       /\ currentState' = currentState
       /\ error' = "none"]_vars

\* C5's case: a handle invoked again while other listeners are registered
\* and after a dispatch.
C5_Witness ==
  /\ recalls > 0
  /\ listeners # <<>>
  /\ dispatched # <<>>

\* C6: subscribe(f) directly followed by the handle it returned leaves the
\* listener array as it was before the subscribe: the array without the
\* element that subscribe appended.
C6_SubscribeThenUnsubscribeRestores ==
  [][(/\ fresh
      /\ Len(handles') = Len(handles)
      /\ handles[Len(handles)].isSubscribed
      /\ ~handles'[Len(handles)].isSubscribed) =>
       listeners' = SubSeq(listeners, 1, Len(listeners) - 1)]_vars

\* C7: every handle removes the slot of its own registration, so the array
\* always holds the callbacks of the live registrations in the order in
\* which subscribe made them.
C7_HandleRemovesItsOwnSlot == listeners = LiveCallbacks

\* C8: a dispatch whose reducer throws hands the exception to its caller,
\* leaves the state, the listener array and the handles as they were and
\* starts no notification pass; the next dispatch whose reducer returns
\* assigns the reducer's result and starts a pass over the whole array.
C8_ThrowingReducerChangesNothing ==
  [][DispatchStep =>
       IF ReducerThrows(reducer, currentState, Given)
         THEN /\ error' = "TypeError"
              /\ stack' = <<>>
              /\ currentState' = currentState
              /\ listeners' = listeners
              /\ handles' = handles
         ELSE error = "TypeError" =>
                /\ error' = "none"
                /\ currentState' = Reducer(reducer, currentState, Given)
                /\ Len(stack') = 1
                /\ stack'[1].len = Len(listeners)
                /\ listeners' = listeners]_vars

\* C8's case: the reducer threw in one dispatch and a later dispatch is
\* notifying the listeners.
C8_Witness ==
  /\ reducer = "todo"
  /\ \E i \in 1..(Len(dispatched) - 1) : ~dispatched[i].def
  /\ dispatched[Len(dispatched)].def
  /\ error = "none"
  /\ stack # <<>>
  /\ Top.called # <<>>

\* C9: a dispatch whose reducer returns undefined hands an error to its
\* caller and leaves the state as it was.
C9_UndefinedResultIsRejected ==
  [][(/\ DispatchStep
      /\ ~ReducerThrows(reducer, currentState, Given)
      /\ Reducer(reducer, currentState, Given) = Undefined) =>
       /\ error' # "none"
       /\ currentState' = currentState]_vars

\* C10: a pass inside which a listener dispatched, and the pass of a
\* dispatch made by a listener, each end having invoked every listener that
\* was registered when the pass started, once and in order.
C10_NestedPassesComplete ==
  \A i \in 1..Len(stack) :
    (stack[i].nested \/ i > 1) /\ PassDone(stack[i]) =>
      stack[i].called = stack[i].snap

\* C14 as stated: every dispatch that returns a state leaves getState()
\* referring to another object than before.
C14_IdentityAlwaysChanges ==
  [][DispatchStep /\ error' = "none" => stateRef' # stateRef]_vars

\* C14 as amended: with the repository's reducer, getState() refers to
\* another object after a dispatch exactly when the action is an ADD_TODO;
\* for an action type the reducer does not know it is the same object.
C14_IdentityChangesOnAddTodo ==
  [][(DispatchStep /\ error' = "none" /\ reducer = "todo") =>
       (stateRef' # stateRef <=> Given.type = "ADD_TODO")]_vars

\* C14's case: an ADD_TODO changed the identity and an unknown action then
\* kept it.
C14_Witness ==
  /\ reducer = "todo"
  /\ dispatched = <<addTodo("x"), OtherAction>>
  /\ stateRef = 2
  /\ getState = Arr(<<"x">>)

\* C15: a pass invokes exactly the callbacks the array held when the pass
\* started, in that order: what it has invoked so far is always the
\* beginning of that array, and all of it when forEach is done.
C15_PassInvokesItsSnapshot ==
  \A i \in 1..Len(stack) :
    LET fr == stack[i] IN
      /\ Len(fr.called) <= Len(fr.snap)
      /\ fr.called = SubSeq(fr.snap, 1, Len(fr.called))
      /\ PassDone(fr) => fr.called = fr.snap

\* C16: whenever forEach invokes a listener, getState() already returns the
\* state after the dispatch that started last, the one of the running pass
\* or a cascading one a listener has made since: the reducer applied to
\* every action dispatched so far.
C16_ListenerSeesNewState ==
  [][CallStep => getState' = Fold(reducer, InitialState, dispatched')]_vars

\* C16's case: a listener of a cascading dispatch is running and sees both
\* transitions.
C16_Witness ==
  /\ Len(stack) = 2
  /\ stack[1].inCall /\ stack[2].inCall
  /\ dispatched = <<addTodo("x"), addTodo("y")>>
  /\ getState = Arr(<<"x", "y">>)

\* This step is a call of subscribe or of an unsubscribe handle.
RegistrationStep == handles' # handles \/ recalls' # recalls

\* This step invokes no listener and starts no pass.
NoInvocation ==
  /\ Len(stack') = Len(stack)
  /\ \A i \in 1..Len(stack) :
       /\ stack'[i].called = stack[i].called
       /\ stack'[i].inCall = stack[i].inCall
       /\ stack'[i].k = stack[i].k

\* C18: subscribe and unsubscribe change only the listener collection: they
\* leave the state and invoke no listener; dispatch changes the state and
\* leaves the listener collection; and the collection changes in no other
\* step. (getState is a read of currentState: it is no step at all.)
C18_FrameConditions ==
  [][/\ RegistrationStep =>
          /\ getState' = getState
          /\ stateRef' = stateRef
          /\ dispatched' = dispatched
          /\ NoInvocation
     /\ DispatchStep => listeners' = listeners /\ handles' = handles
     /\ listeners' # listeners => RegistrationStep /\ ~DispatchStep]_vars

\* C18's case: all three have been called, from a listener too: a pass is
\* running in which a listener subscribed and unsubscribed, and the state
\* is the dispatch's.
C18_Witness ==
  /\ Len(stack) = 1
  /\ stack[1].ops = "other"
  /\ Len(handles) = 3
  /\ Dead # {}
  /\ getState = Arr(<<"x">>)

\* The collection holds each callback once per registration whose handle has
\* not been invoked.
Accounted == \A f \in Callbacks : Count(listeners, f) = LiveCount(f)

\* This step is the first call of handle h.
FirstCallOf(h) == handles[h].isSubscribed /\ ~handles'[h].isSubscribed

\* That call found its callback and removed one element holding it, and
\* none holding another callback.
LookupHits ==
  \A h \in 1..Len(handles) :
    FirstCallOf(h) =>
      /\ IndexOf(listeners, handles[h].listener) # -1
      /\ \A f \in Callbacks :
           Count(listeners', f) =
             Count(listeners, f) - (IF f = handles[h].listener THEN 1 ELSE 0)

\* This step is a dispatch returning to its caller, its forEach done.
ReturnStep ==
  /\ stack # <<>>
  /\ PassDone(Top)
  /\ Len(stack') = Len(stack) - 1

\* C19: the collection holds each callback once per registration whose
\* handle has not been invoked; the first call of a handle finds its
\* callback and removes exactly one element holding it; and a dispatch calls
\* a callback that has k registrations, m of them with their handle invoked,
\* both when the dispatch starts and when it returns, k - m times.
C19_RegistrationAccounting ==
  [][/\ Accounted'
     /\ LookupHits
     /\ ReturnStep =>
          \A f \in Callbacks :
            Count(Top.snap, f) = LiveCount(f) =>
              Count(Top.called, f) = LiveCount(f)]_vars

\* The handle instance c keeps in this.unsubscribe.
HandleOf(c) == components[c].unsubscribe

\* This step is forEach calling the handleChange of instance c.
Rerender(c) == CallStep /\ listeners[Top.k + 1] = c

\* C11: an instance goes from new to mounted to unmounted and never back.
\* While it is mounted the store holds exactly one registration of its
\* handleChange; before and after it holds none. Mounting adds that one
\* registration; unmounting is the one call of its handle, whether or not
\* a dispatch happened in between; and no dispatch calls the handleChange
\* of an instance that is not mounted, the pass that was running when it
\* was unmounted included.
C11_ComponentLifecycle ==
  [][\A c \in Instances :
       /\ components'[c].phase = "mounted"
            => /\ Count(listeners', c) = 1
               /\ handles'[HandleOf(c)'] = [listener |-> c,
                                            isSubscribed |-> TRUE]
       /\ components'[c].phase # "mounted"
            => /\ Count(listeners', c) = 0
               /\ LiveCount(c)' = 0
       /\ components'[c].phase # components[c].phase
            => \/ /\ components[c].phase = "new"
                  /\ components'[c].phase = "mounted"
                  /\ listeners' = Append(listeners, c)
                  /\ Len(handles') = Len(handles) + 1
               \/ /\ components[c].phase = "mounted"
                  /\ components'[c].phase = "unmounted"
                  /\ FirstCallOf(HandleOf(c))
                  /\ recalls' = recalls
       /\ Rerender(c) => components[c].phase = "mounted"]_vars

\* C11's case: c2 was unmounted by c1's re-render while the pass of a
\* dispatch was running, c3 was subscribed after it, and the pass has come
\* to its end.
C11_Witness ==
  /\ Len(stack) = 1
  /\ PassDone(stack[1])
  /\ stack[1].snap = <<"c1", "c2", "c3">>
  /\ stack[1].called = <<"c1", "c3">>
  /\ components["c2"].phase = "unmounted"

\* Instance c was mounted when the pass that is returning started, and is
\* mounted now.
MountedThroughout(c) ==
  /\ components[c].phase = "mounted"
  /\ Count(Top.snap, c) = 1

\* C12: when the outermost dispatch returns, every instance that was mounted
\* when it began and is mounted now has been re-rendered by it, and the props
\* of its last render are those of the current state.
C12_NoStaleRender ==
  [][(ReturnStep /\ Len(stack) = 1) =>
       \A c \in Instances :
         MountedThroughout(c) =>
           /\ Count(Top.called, c) >= 1
           /\ components[c].props = mapStateToProps(getState)]_vars

\* C13: mounting an instance with no Provider above it fails with the
\* adapter's own MissingScope error.
C13_MissingScopeError ==
  [][\A c \in Components :
       (components[c].phase = "new" /\ components'[c].phase = "failed")
         => error' = "MissingScope"]_vars

\* C17: every dispatch that returns has called the handleChange of every
\* instance that was mounted when it began and is mounted now exactly once,
\* whatever the reducer returned.
C17_OneRerenderPerDispatch ==
  [][ReturnStep =>
       \A c \in Instances :
         MountedThroughout(c) => Count(Top.called, c) = 1]_vars

\* The live registrations of callback f at the second store.
SecondLiveCount(f) ==
  Cardinality({h \in 1..Len(second.handles) :
                 /\ second.handles[h].isSubscribed
                 /\ second.handles[h].listener = f})

\* This step is a call of a method of the second store.
SecondStep == second' # second

\* This step is a call of a method of the first store, or a step of one of
\* its passes.
FirstStep ==
  <<currentState, stateRef, listeners, handles, stack, dispatched, recalls>>'
    # <<currentState, stateRef, listeners, handles, stack, dispatched,
        recalls>>

\* C20: a call on one store leaves the other store's state and listener
\* collection as they were and invokes none of its listeners: a dispatch
\* invokes a callback once per registration at its own store, however many
\* registrations the callback has at the other.
C20_StoresAreIndependent ==
  [][/\ SecondStep =>
          /\ UNCHANGED <<currentState, stateRef, listeners, handles>>
          /\ stack' = stack
     /\ FirstStep => second' = second
     /\ second'.dispatches # second.dispatches =>
          \/ /\ second'.currentState = second.currentState
             /\ second'.called = <<>>
          \/ \A f \in Callbacks :
               Count(second'.called, f) = SecondLiveCount(f)
     /\ (ReturnStep /\ Top.ops = "none") =>
          \A f \in Callbacks : Count(Top.called, f) = LiveCount(f)]_vars

\* C20's case: the same callback is subscribed to both stores, twice to the
\* second, each store has had its own dispatch, and each has its own state.
C20_Witness ==
  /\ stack = <<>>
  /\ listeners = <<"f">>
  /\ second.listeners = <<"f", "f">>
  /\ getState = Arr(<<"x">>)
  /\ second.currentState = Arr(<<"y">>)
  /\ second.called = <<"f", "f">>

====
